---- MODULE Spec2Model ----
(***************************************************************************)
(* The message-passing engine of tramp (src/algos/message_passing.py):     *)
(* MessagePassing.iterate and the methods it calls, over a small factor    *)
(* graph.                                                                  *)
(*                                                                         *)
(* Nodes are identified by their id, the way find_variable_in_nodes looks  *)
(* a Variable up in a checkpoint.  A tensor is an integer; NaN is a value  *)
(* of its own, for which every comparison is false.                        *)
(*                                                                         *)
(* The channels of src/channels (SumChannel, ReshapeChannel and            *)
(* GradientChannel) are pure functions of the moments they are given; they *)
(* are applied to drawn moments under the specification ChannelSpec.       *)
(* Their numbers are exact fractions; a division by zero, which raises     *)
(* ZeroDivisionError on Python numbers and gives inf or nan on numpy       *)
(* numbers, yields the value ZeroDivision.                                 *)
(***************************************************************************)
EXTENDS Integers, Sequences, FiniteSets, TLC

VARIABLES
    forward,          \* self.forward: the caller's forward rule
    backward,         \* self.backward: the caller's backward rule
    has_dag,          \* hasattr(self, "message_dag")
    message_dag,      \* self.message_dag
    variables,        \* self.variables
    n_iter,           \* self.n_iter
    pc,               \* where iterate stands; "idle" when no call is running
    i,                \* the loop index of iterate
    max_iter,         \* the arguments of the running, or latest, call
    warm_start,
    check_nan,
    check_decreasing,
    old_message_dag,  \* iterate's local checkpoint
    outcome,          \* how the latest call of iterate ended
    iter_start,       \* history: the graph and n_iter when iteration i began
    rule_log,         \* history: the rule invocations of the latest iteration
    cb_log,           \* history: the callback invocations of the latest call
    n_calls,          \* history: calls of iterate made so far
    channel,          \* the channel object a method is called on
    op,               \* the channel method that was called last
    az, bz, ax, bx,   \* the moments the method was called with
    ret               \* what the method returned

engine_vars ==
    << forward, backward, has_dag, message_dag, variables, n_iter, pc, i,
       max_iter, warm_start, check_nan, check_decreasing, old_message_dag,
       outcome, iter_start, rule_log, cb_log, n_calls >>

channel_vars == << channel, op, az, bz, ax, bx, ret >>

vars == << engine_vars, channel_vars >>

-----------------------------------------------------------------------------
(* Bounds of the model *)

\* the largest max_iter a call of iterate is given
MaxIter == 2
\* the number of calls of iterate on one engine
MaxCalls == 2
\* payload tensors take the values 0 .. MaxVal
MaxVal == 1
\* variances take the values 0 .. MaxV, and NaN
MaxV == 1

-----------------------------------------------------------------------------
(* Values *)

\* np.nan: a value no comparison holds for
NaN == -1

IsNaN(x) == x = NaN

\* new_v > old_v on floats: false as soon as one side is NaN
Greater(x, y) == ~IsNaN(x) /\ ~IsNaN(y) /\ x > y

Vals == 0 .. MaxVal

VSet == (0 .. MaxV) \cup {NaN}

\* dict.update: the keys of new are set, the other keys of d are kept
DictUpdate(d, new) ==
    [k \in (DOMAIN d) \cup (DOMAIN new) |->
        IF k \in DOMAIN new THEN new[k] ELSE d[k]]

-----------------------------------------------------------------------------
(* The model handed to the constructor: prior f1 -> x1 -> channel f2 -> x2 *)

\* model.dag.nodes(), in insertion order
ModelNodes == << "f1", "x1", "f2", "x2" >>

\* isinstance(node, Variable)
IsVariable(n) == n \in {"x1", "x2"}

\* model.dag.edges()
ModelEdges == { <<"f1", "x1">>, <<"x1", "f2">>, <<"f2", "x2">> }

\* model.dag.node[n]: the annotations init_shapes and second_moment left
ModelNodeData(n) == [tau |-> 1]

\* model.forward_ordering, a topological order
ForwardOrdering == << "f1", "x1", "f2", "x2" >>

\* model.backward_ordering, the reverse order
BackwardOrdering == << "x2", "f2", "x1", "f1" >>

\* model.variables
ModelVariables == << "x1", "x2" >>

\* the orders in which a model may list its Variables in model.variables:
\* the engine takes the list as the model hands it over, whatever the order
\* of the nodes in model.dag
VariableOrders == { << "x1", "x2" >>, << "x2", "x1" >> }

\* self.message_keys
MessageKeys == {"a", "b"}

Range(s) == { s[k] : k \in 1 .. Len(s) }

RECURSIVE SelectSeqOf(_, _)
\* [node for node in nodes if isinstance(node, Variable)]
SelectSeqOf(nodes, k) ==
    IF k > Len(nodes) THEN << >>
    ELSE IF IsVariable(nodes[k])
         THEN << nodes[k] >> \o SelectSeqOf(nodes, k + 1)
         ELSE SelectSeqOf(nodes, k + 1)

-----------------------------------------------------------------------------
(* The message graph *)

\* before the first cold start the engine has no message_dag attribute
NoDag == [nodes |-> << >>, node |-> << >>, edge |-> << >>]

\* _default_initializer = ConstantInit(a=0, b=0)
DefaultInitializer == [a |-> 0, b |-> 0]

\* the initializers iterate is called with: none, which selects the default
Initializers == { DefaultInitializer }

MsgEdges == ModelEdges \cup { << e[2], e[1] >> : e \in ModelEdges }

\* an init_message_dag that tags every message edge "fwd"
InitEdgeDataAllForward(e, init) ==
    LET base == [direction |-> "fwd", n_iter |-> 0]
        withTau == IF IsVariable(e[1])
                   THEN DictUpdate(base, [tau |-> ModelNodeData(e[1]).tau])
                   ELSE base
    IN  DictUpdate(withTau, [k \in MessageKeys |-> init[k]])

InitEdgeData(e, init) ==
    LET dir == IF e \in ModelEdges THEN "fwd" ELSE "bwd"
        base == [direction |-> dir, n_iter |-> 0]
        withTau == IF dir = "fwd" /\ IsVariable(e[1])
                   THEN DictUpdate(base, [tau |-> ModelNodeData(e[1]).tau])
                   ELSE base
    IN  DictUpdate(withTau, [k \in MessageKeys |-> init[k]])

\* an init_message_dag that keeps a message graph the engine already has
InitMessageDagOnce(init) ==
    IF has_dag THEN message_dag
    ELSE [ nodes |-> ModelNodes,
           node  |-> [n \in Range(ModelNodes) |-> ModelNodeData(n)],
           edge  |-> [e \in MsgEdges |-> InitEdgeData(e, init)] ]

\* init_message_dag
InitMessageDag(init) ==
    [ nodes |-> ModelNodes,
      node  |-> [n \in Range(ModelNodes) |-> ModelNodeData(n)],
      edge  |-> [e \in MsgEdges |-> InitEdgeData(e, init)] ]

\* message_dag.in_edges(node, data=True): the live data of the edges into node
InEdges(dag, node) ==
    [e \in { d \in DOMAIN dag.edge : d[2] = node } |-> dag.edge[e]]


-----------------------------------------------------------------------------
(* The rules a caller hands to the constructor.  A rule is a function of   *)
(* the node and of the messages it receives; it returns new messages       *)
(* (source, target, payload) for the edges leaving the node in the sweep's *)
(* direction, and it may write into the tensors it received.               *)

RuleSet == {"silent", "relay", "inplace"}

Modulus == MaxVal + 1

RECURSIVE SumA(_)
\* the sum of the precisions a of the received messages
SumA(message) ==
    IF DOMAIN message = {} THEN 0
    ELSE LET e == CHOOSE d \in DOMAIN message : TRUE
         IN  message[e].a
             + SumA([d \in (DOMAIN message) \ {e} |-> message[d]])

RECURSIVE SetToSeq(_)
SetToSeq(S) ==
    IF S = {} THEN << >>
    ELSE LET x == CHOOSE y \in S : TRUE
         IN  << x >> \o SetToSeq(S \ {x})

\* the edges a rule at node writes in a sweep of direction dir
OutEdges(node, dir) ==
    { e \in MsgEdges : e[1] = node /\ (e \in ModelEdges <=> dir = "fwd") }

RECURSIVE MessagesFor(_, _)
\* the messages (source, target, payload) with the payloads, edge by edge
MessagesFor(edges, payloads) ==
    IF edges = << >> THEN << >>
    ELSE [k \in 1 .. Len(payloads) |->
             [source |-> Head(edges)[1], target |-> Head(edges)[2],
              data |-> payloads[k]]]
         \o MessagesFor(Tail(edges), payloads)

\* rule(node, message): the new messages, and the tensors written in place.
\*   silent   returns no message;
\*   relay    returns one message per edge, computed from the messages it
\*            received: both keys, or the key a alone;
\*   inplace  adds 1 in place to the tensor b of every message it received
\*            and returns two messages per edge, one key each
ApplyRule(rule, dir, node, message) ==
    LET s == SumA(message)
        out == SetToSeq(OutEdges(node, dir))
        pa == [a |-> (s + 1) % Modulus]
        pb == [b |-> s % Modulus]
        pab == [a |-> (s + 1) % Modulus, b |-> MaxVal]
    IN  CASE rule = "silent" ->
               [msgs |-> << >>, inplace |-> << >>]
          [] rule = "relay" ->
               [msgs |-> MessagesFor(out, IF s % 2 = 0 THEN << pab >>
                                                       ELSE << pa >>),
                inplace |-> << >>]
          [] rule = "inplace" ->
               [msgs |-> MessagesFor(out, << pa, pb >>),
                inplace |-> [t \in (DOMAIN message) \X {"b"} |->
                                (message[t[1]].b + 1) % Modulus]]

-----------------------------------------------------------------------------
(* Checkpoints.  A checkpoint is the copied graph together with the        *)
(* tensors (edge, key) it still shares with the live graph.                *)

NoCheckpoint == [dag |-> NoDag, shared |-> {}]

\* a copy of the graph and of its attribute dictionaries that keeps the
\* tensors of the live graph
CopyDagShallow(dag) ==
    [dag |-> dag, shared |-> (DOMAIN dag.edge) \X MessageKeys]

\* message_dag.copy(): a deep copy.  The code looks every Variable up by id
\* in the checkpoint and collects the variable list again from a restored
\* graph, as is needed when the copy holds copies of the nodes and of all
\* their data (DiGraph.copy of networkx 1.x is copy.deepcopy)
CopyDag(dag) == [dag |-> dag, shared |-> {}]

\* a tensor written in place changes in every graph that holds it
WriteInPlace(dag, inplace, holders) ==
    [dag EXCEPT !.edge =
        [e \in DOMAIN dag.edge |->
            [k \in DOMAIN dag.edge[e] |->
                IF << e, k >> \in (DOMAIN inplace) \cap holders
                THEN inplace[<< e, k >>]
                ELSE dag.edge[e][k]]]]

AllTensors(dag) == (DOMAIN dag.edge) \X MessageKeys

RECURSIVE UpdateMessageNoCount(_, _)
\* an update_message that leaves the edge's n_iter alone
UpdateMessageNoCount(dag, new_message) ==
    IF new_message = << >> THEN dag
    ELSE LET m == Head(new_message)
             e == << m.source, m.target >>
         IN  UpdateMessageNoCount(
                 [dag EXCEPT !.edge[e] = DictUpdate(@, m.data)],
                 Tail(new_message))

RECURSIVE UpdateMessageOverwrite(_, _)
\* an update_message that clears the message keys absent from the payload
UpdateMessageOverwrite(dag, new_message) ==
    IF new_message = << >> THEN dag
    ELSE LET m == Head(new_message)
             e == << m.source, m.target >>
             n == dag.edge[e].n_iter
             new_data == DictUpdate(m.data, [n_iter |-> n + 1])
         IN  UpdateMessageOverwrite(
                 [dag EXCEPT !.edge[e] =
                     DictUpdate(DictUpdate(@, DefaultInitializer), new_data)],
                 Tail(new_message))

RECURSIVE UpdateMessage(_, _)
\* update_message
UpdateMessage(dag, new_message) ==
    IF new_message = << >> THEN dag
    ELSE LET m == Head(new_message)
             e == << m.source, m.target >>
             n == dag.edge[e].n_iter
             new_data == DictUpdate(m.data, [n_iter |-> n + 1])
         IN  UpdateMessage(
                 [dag EXCEPT !.edge[e] = DictUpdate(@, new_data)],
                 Tail(new_message))

\* the tensors update_message binds anew are no longer those of a checkpoint
Rebound(new_message) ==
    UNION { { << << new_message[k].source, new_message[k].target >>, key >> :
                  key \in DOMAIN new_message[k].data } :
            k \in 1 .. Len(new_message) }

RECURSIVE Sweep(_, _, _, _, _)
\* the loop of forward_message and backward_message over ordering[k..]
Sweep(rule, dir, ordering, k, st) ==
    IF k > Len(ordering) THEN st
    ELSE LET node == ordering[k]
             message == InEdges(st.dag, node)
             res == ApplyRule(rule, dir, node, message)
             written == WriteInPlace(st.dag, res.inplace, AllTensors(st.dag))
             old1 == [dag |-> WriteInPlace(st.old.dag, res.inplace, st.old.shared),
                      shared |-> st.old.shared \ Rebound(res.msgs)]
         IN  Sweep(rule, dir, ordering, k + 1,
                   [dag |-> UpdateMessage(written, res.msgs),
                    old |-> old1,
                    log |-> Append(st.log,
                                   [phase |-> dir, node |-> node,
                                    message |-> message,
                                    new_message |-> res.msgs,
                                    before |-> written,
                                    after |-> UpdateMessage(written, res.msgs)])])

\* a forward_message that walks the backward ordering
ForwardMessageReversed(rule, st) ==
    Sweep(rule, "fwd", BackwardOrdering, 1, st)

\* forward_message
ForwardMessage(rule, st) == Sweep(rule, "fwd", ForwardOrdering, 1, st)

\* backward_message
BackwardMessage(rule, st) == Sweep(rule, "bwd", BackwardOrdering, 1, st)

-----------------------------------------------------------------------------
(* The variable update and the diagnostics *)

RECURSIVE UpdateVariablesCounting(_, _, _, _)
\* an update_variables that also counts a delivery on the edges it gathered
UpdateVariablesCounting(vs, vars_list, k, st) ==
    IF k > Len(vars_list) THEN st
    ELSE LET variable == vars_list[k]
             message == InEdges(st.dag, variable)
             new_data == [r |-> SumA(message) % Modulus, v |-> vs[variable]]
             updated ==
                 [st.dag EXCEPT
                     !.node[variable] = DictUpdate(@, new_data),
                     !.edge = [e \in DOMAIN st.dag.edge |->
                                  IF e \in DOMAIN message
                                  THEN DictUpdate(st.dag.edge[e],
                                           [n_iter |->
                                               st.dag.edge[e].n_iter + 1])
                                  ELSE st.dag.edge[e]]]
         IN  UpdateVariablesCounting(vs, vars_list, k + 1,
                 [dag |-> updated,
                  old |-> st.old,
                  log |-> Append(st.log,
                                 [phase |-> "upd", node |-> variable,
                                  message |-> message,
                                  new_message |-> << >>,
                                  before |-> st.dag,
                                  after |-> updated])])

RECURSIVE UpdateVariables(_, _, _, _)
\* update_variables; the update rule returns the mean r it computes from
\* the messages and the variance vs[variable]
UpdateVariables(vs, vars_list, k, st) ==
    IF k > Len(vars_list) THEN st
    ELSE LET variable == vars_list[k]
             message == InEdges(st.dag, variable)
             new_data == [r |-> SumA(message) % Modulus, v |-> vs[variable]]
             updated == [st.dag EXCEPT !.node[variable] =
                                          DictUpdate(@, new_data)]
         IN  UpdateVariables(vs, vars_list, k + 1,
                 [dag |-> updated,
                  old |-> st.old,
                  log |-> Append(st.log,
                                 [phase |-> "upd", node |-> variable,
                                  message |-> message,
                                  new_message |-> << >>,
                                  before |-> st.dag,
                                  after |-> updated])])

\* a check_any_nan that looks at the first Variable only
CheckAnyNanFirstOnly(dag, vars_list) ==
    IsNaN(dag.node[vars_list[1]].v)

\* check_any_nan
CheckAnyNan(dag, vars_list) ==
    \E k \in 1 .. Len(vars_list) : IsNaN(dag.node[vars_list[k]].v)

\* find_variable_in_nodes
FindVariableInNodes(id, nodes) ==
    CHOOSE n \in Range(nodes) : IsVariable(n) /\ n = id

\* a check_any_increasing that looks at the first Variable only
CheckAnyIncreasingFirstOnly(dag, vars_list, old_dag) ==
    Greater(dag.node[vars_list[1]].v,
            old_dag.node[FindVariableInNodes(vars_list[1], old_dag.nodes)].v)

\* check_any_increasing
CheckAnyIncreasing(dag, vars_list, old_dag) ==
    \E k \in 1 .. Len(vars_list) :
        LET old_variable == FindVariableInNodes(vars_list[k], old_dag.nodes)
        IN  Greater(dag.node[vars_list[k]].v, old_dag.node[old_variable].v)

\* get_variables_data
GetVariablesData(dag, vars_list) ==
    [k \in 1 .. Len(vars_list) |->
        DictUpdate([id |-> vars_list[k], variable |-> vars_list[k]],
                   dag.node[vars_list[k]])]

-----------------------------------------------------------------------------
(* The engine *)

\* no channel is in use
NoChannelCall ==
    /\ channel = [kind |-> "none"]
    /\ op = "none"
    /\ az = 0 /\ bz = 0 /\ ax = 0 /\ bx = 0
    /\ ret = [raised |-> "none", value |-> << >>]

\* __init__: the rules are the caller's; no message graph yet
Init ==
    /\ forward \in RuleSet
    /\ backward \in RuleSet
    /\ has_dag = FALSE
    /\ message_dag = NoDag
    /\ variables \in VariableOrders
    /\ n_iter = 0
    /\ pc = "idle"
    /\ i = 0
    /\ max_iter = 0
    /\ warm_start = FALSE
    /\ check_nan = FALSE
    /\ check_decreasing = FALSE
    /\ old_message_dag = NoCheckpoint
    /\ outcome = "none"
    /\ iter_start = [dag |-> NoDag, n_iter |-> 0]
    /\ rule_log = << >>
    /\ cb_log = << >>
    /\ n_calls = 0
    /\ NoChannelCall

\* iterate is entered: its arguments are bound
Enter(mi, ws, cn, cd) ==
    /\ pc = "idle"
    /\ n_calls < MaxCalls
    /\ n_calls' = n_calls + 1
    /\ max_iter' = mi
    /\ warm_start' = ws
    /\ check_nan' = cn
    /\ check_decreasing' = cd
    /\ rule_log' = << >>
    /\ cb_log' = << >>

\* iterate returns: its checkpoint is gone
Return(how) ==
    /\ pc' = "idle"
    /\ outcome' = how
    /\ old_message_dag' = NoCheckpoint

\* a warm start that does not look for the graph
HasMessageDagAssumed == TRUE

\* hasattr(self, "message_dag")
HasMessageDag == has_dag

\* iterate(max_iter, warm_start=False): n_iter is reset and the graph built
IterateCold(mi, cn, cd, init) ==
    /\ Enter(mi, FALSE, cn, cd)
    /\ n_iter' = 0
    /\ message_dag' = InitMessageDag(init)
    /\ has_dag' = TRUE
    /\ pc' = "loop"
    /\ i' = 0
    /\ iter_start' = [dag |-> message_dag', n_iter |-> 0]
    /\ UNCHANGED << channel_vars, forward, backward, variables, outcome, old_message_dag >>

\* iterate(max_iter, warm_start=True) on an engine that has a message graph
IterateWarm(mi, cn, cd) ==
    /\ Enter(mi, TRUE, cn, cd)
    /\ HasMessageDag
    /\ pc' = "loop"
    /\ i' = 0
    /\ iter_start' = [dag |-> message_dag, n_iter |-> n_iter]
    /\ UNCHANGED << channel_vars, forward, backward, variables, outcome, n_iter,
                    message_dag, has_dag, old_message_dag >>

\* iterate(max_iter, warm_start=True) on an engine that has none: ValueError
IterateWarmError(mi, cn, cd) ==
    /\ Enter(mi, TRUE, cn, cd)
    /\ ~HasMessageDag
    /\ outcome' = "usage_error"
    /\ UNCHANGED << channel_vars, forward, backward, has_dag, message_dag, variables,
                    n_iter, pc, i, old_message_dag, iter_start >>

\* a range that includes its end
InRangeInclusive(k, n) == k <= n

\* i in range(max_iter)
InRange(k, n) == k < n

\* for i in range(max_iter): the checkpoint of iteration i
BeginIteration ==
    /\ pc = "loop"
    /\ InRange(i, max_iter)
    /\ old_message_dag' =
           IF i > 0 /\ (check_nan \/ check_decreasing)
           THEN CopyDag(message_dag)
           ELSE old_message_dag
    /\ iter_start' = [dag |-> message_dag, n_iter |-> n_iter]
    /\ rule_log' = << >>
    /\ pc' = "fwd"
    /\ UNCHANGED << channel_vars, forward, backward, has_dag, message_dag, variables,
                    n_iter, i, max_iter, warm_start, check_nan,
                    check_decreasing, outcome, cb_log, n_calls >>

\* range(max_iter) is exhausted: iterate returns
Exhausted ==
    /\ pc = "loop"
    /\ ~InRange(i, max_iter)
    /\ Return("max_iter")
    /\ UNCHANGED << channel_vars, forward, backward, has_dag, message_dag, variables,
                    n_iter, i, max_iter, warm_start, check_nan,
                    check_decreasing, iter_start, rule_log, cb_log, n_calls >>

SweepState == [dag |-> message_dag, old |-> old_message_dag, log |-> rule_log]

\* self.forward_message()
DoForward ==
    /\ pc = "fwd"
    /\ LET st == ForwardMessage(forward, SweepState)
       IN  /\ message_dag' = st.dag
           /\ old_message_dag' = st.old
           /\ rule_log' = st.log
    /\ pc' = "bwd"
    /\ UNCHANGED << channel_vars, forward, backward, has_dag, variables, n_iter, i,
                    max_iter, warm_start, check_nan, check_decreasing,
                    outcome, iter_start, cb_log, n_calls >>

\* self.backward_message()
DoBackward ==
    /\ pc = "bwd"
    /\ LET st == BackwardMessage(backward, SweepState)
       IN  /\ message_dag' = st.dag
           /\ old_message_dag' = st.old
           /\ rule_log' = st.log
    /\ pc' = "upd"
    /\ UNCHANGED << channel_vars, forward, backward, has_dag, variables, n_iter, i,
                    max_iter, warm_start, check_nan, check_decreasing,
                    outcome, iter_start, cb_log, n_calls >>

\* self.update_variables(), the update rule returning the variances vs
DoUpdate(vs) ==
    /\ pc = "upd"
    /\ LET st == UpdateVariables(vs, variables, 1, SweepState)
       IN  /\ message_dag' = st.dag
           /\ old_message_dag' = st.old
           /\ rule_log' = st.log
    /\ pc' = "check"
    /\ UNCHANGED << channel_vars, forward, backward, has_dag, variables, n_iter, i,
                    max_iter, warm_start, check_nan, check_decreasing,
                    outcome, iter_start, cb_log, n_calls >>

\* a reset_message_dag that leaves the live graph in place
ResetMessageDagKeepsLive(dag) ==
    /\ message_dag' = message_dag
    /\ variables' = SelectSeqOf(message_dag.nodes, 1)

\* reset_message_dag
ResetMessageDag(dag) ==
    /\ message_dag' = dag
    /\ variables' = SelectSeqOf(dag.nodes, 1)

\* a NaN check that does not look at i
NanFoundAtAnyIteration == check_nan /\ CheckAnyNan(message_dag, variables)

\* (i>0) and check_nan and self.check_any_nan()
NanFound == i > 0 /\ check_nan /\ CheckAnyNan(message_dag, variables)

\* an increasing check that runs only inside the NaN check
IncreasingFoundUnderNanCheck ==
    /\ i > 0
    /\ check_nan
    /\ check_decreasing
    /\ CheckAnyIncreasing(message_dag, variables, old_message_dag.dag)

\* (i>0) and check_decreasing and self.check_any_increasing(old_message_dag)
IncreasingFound ==
    /\ i > 0
    /\ check_decreasing
    /\ CheckAnyIncreasing(message_dag, variables, old_message_dag.dag)

\* a NaN variance: the checkpoint is restored and iterate returns
RestoreNan ==
    /\ pc = "check"
    /\ NanFound
    /\ ResetMessageDag(old_message_dag.dag)
    /\ Return("nan")
    /\ UNCHANGED << channel_vars, forward, backward, has_dag, n_iter, i, max_iter,
                    warm_start, check_nan, check_decreasing, iter_start,
                    rule_log, cb_log, n_calls >>

\* an increasing variance: the checkpoint is restored and iterate returns
RestoreIncreasing ==
    /\ pc = "check"
    /\ ~NanFound
    /\ IncreasingFound
    /\ ResetMessageDag(old_message_dag.dag)
    /\ Return("increasing")
    /\ UNCHANGED << channel_vars, forward, backward, has_dag, n_iter, i, max_iter,
                    warm_start, check_nan, check_decreasing, iter_start,
                    rule_log, cb_log, n_calls >>

\* a callback answer that is not looked at
StopIgnored(stop) == FALSE

\* if stop:
StopRequested(stop) == stop

\* an accepted iteration that is counted only when the callback lets the
\* run go on
AcceptCountsAfterStop(stop) ==
    /\ pc = "check"
    /\ ~NanFound
    /\ ~IncreasingFound
    /\ n_iter' = IF stop THEN n_iter ELSE n_iter + 1
    /\ cb_log' = Append(cb_log,
                        [n_iter |-> n_iter, i |-> i, max_iter |-> max_iter,
                         data |-> GetVariablesData(message_dag, variables),
                         stop |-> stop])
    /\ IF StopRequested(stop)
       THEN /\ Return("stop")
            /\ i' = i
       ELSE /\ pc' = "loop"
            /\ i' = i + 1
            /\ UNCHANGED << old_message_dag, outcome >>
    /\ UNCHANGED << channel_vars, forward, backward, has_dag, message_dag, variables,
                    max_iter, warm_start, check_nan, check_decreasing,
                    iter_start, rule_log, n_calls >>

\* the iteration is accepted: n_iter += 1, then callback(self, i, max_iter),
\* which answers stop; a truthy answer ends iterate
Accept(stop) ==
    /\ pc = "check"
    /\ ~NanFound
    /\ ~IncreasingFound
    /\ n_iter' = n_iter + 1
    /\ cb_log' = Append(cb_log,
                        [n_iter |-> n_iter', i |-> i, max_iter |-> max_iter,
                         data |-> GetVariablesData(message_dag, variables),
                         stop |-> stop])
    /\ IF StopRequested(stop)
       THEN /\ Return("stop")
            /\ i' = i
       ELSE /\ pc' = "loop"
            /\ i' = i + 1
            /\ UNCHANGED << old_message_dag, outcome >>
    /\ UNCHANGED << channel_vars, forward, backward, has_dag, message_dag, variables,
                    max_iter, warm_start, check_nan, check_decreasing,
                    iter_start, rule_log, n_calls >>

Next ==
    \/ \E mi \in 0 .. MaxIter, cn \in BOOLEAN, cd \in BOOLEAN :
          \/ \E init \in Initializers : IterateCold(mi, cn, cd, init)
          \/ IterateWarm(mi, cn, cd)
          \/ IterateWarmError(mi, cn, cd)
    \/ BeginIteration
    \/ Exhausted
    \/ DoForward
    \/ DoBackward
    \/ \E vs \in [Range(variables) -> VSet] : DoUpdate(vs)
    \/ RestoreNan
    \/ RestoreIncreasing
    \/ \E stop \in BOOLEAN : Accept(stop)

Spec == Init /\ [][Next]_vars

-----------------------------------------------------------------------------
(* What the claims are stated with *)

\* the latest call of iterate has returned (it did not raise)
Returned ==
    pc = "idle" /\ outcome \in {"max_iter", "nan", "increasing", "stop"}

\* the latest call of iterate ended by restoring its checkpoint
Reverted == pc = "idle" /\ outcome \in {"nan", "increasing"}

\* iterate stands inside iteration i
InIteration == pc \in {"fwd", "bwd", "upd", "check"}

\* the checkpoint of iteration i exists
Checkpointed == InIteration /\ i > 0 /\ (check_nan \/ check_decreasing)

\* the graph as the update pass of the latest iteration left it
LastAfter == rule_log[Len(rule_log)].after

\* the variances a snapshot of get_variables_data holds
HasNan(data) == \E k \in DOMAIN data : data[k].v = NaN

\* the Variable x has a variance in the graph dag, and it is NaN
VarianceIsNaN(dag, x) ==
    "v" \in DOMAIN dag.node[x] /\ IsNaN(dag.node[x].v)

\* what the latest callback invocation saw
LastCallback == cb_log[Len(cb_log)]

-----------------------------------------------------------------------------
(* C1: with check_nan enabled, an iteration i > 0 that leaves a NaN        *)
(* variance is never accepted: no callback is invoked for it; iterate      *)
(* returns with the graph of the checkpoint taken at the start of that     *)
(* iteration, so that the graph, the variables' data and n_iter are those  *)
(* iteration i-1 left.                                                     *)
C1_NanReverts ==
    /\ \A k \in DOMAIN cb_log :
          (check_nan /\ cb_log[k].i > 0) => ~HasNan(cb_log[k].data)
    /\ (pc = "idle" /\ outcome = "nan") =>
          /\ check_nan /\ i > 0
          /\ \E x \in Range(ModelVariables) : LastAfter.node[x].v = NaN
          /\ message_dag = iter_start.dag
          /\ n_iter = iter_start.n_iter
          /\ Len(cb_log) = i
          /\ LastCallback.i = i - 1
          /\ n_iter = LastCallback.n_iter
          /\ Range(GetVariablesData(message_dag, variables))
                 = Range(LastCallback.data)

\* iterate has reverted an iteration whose second Variable alone was NaN
C1_Witness ==
    /\ pc = "idle" /\ outcome = "nan" /\ n_iter = 1
    /\ LastAfter.node["x1"].v # NaN
    /\ LastAfter.node["x2"].v = NaN
    /\ message_dag.node["x2"].v # NaN

(* C2: with check_decreasing enabled, an iteration i > 0 after which some  *)
(* variance is strictly greater than in the checkpoint is reverted and     *)
(* ends the run; over the accepted iterations of a run no variance is      *)
(* strictly greater than at the accepted iteration before.                 *)
C2_IncreaseReverts ==
    /\ \A k \in DOMAIN cb_log :
          (check_decreasing /\ k > 1) =>
              \A j \in DOMAIN cb_log[k].data :
                  ~Greater(cb_log[k].data[j].v, cb_log[k - 1].data[j].v)
    /\ (pc = "idle" /\ outcome = "increasing") =>
          /\ check_decreasing /\ i > 0
          /\ \E x \in Range(ModelVariables) :
                Greater(LastAfter.node[x].v, iter_start.dag.node[x].v)
          /\ message_dag = iter_start.dag
          /\ n_iter = iter_start.n_iter
          /\ Range(GetVariablesData(message_dag, variables))
                 = Range(LastCallback.data)

\* iterate has reverted an iteration that raised the second variance alone
C2_Witness ==
    /\ pc = "idle" /\ outcome = "increasing"
    /\ LastAfter.node["x1"].v <= message_dag.node["x1"].v
    /\ LastAfter.node["x2"].v > message_dag.node["x2"].v
    /\ message_dag.node["x2"].v # NaN

(* C3, as claimed: with check_nan enabled, whenever iterate returns no     *)
(* Variable has v = NaN, also when the NaN came at the first iteration.    *)
C3_Original ==
    (Returned /\ check_nan) =>
        \A x \in Range(variables) : ~VarianceIsNaN(message_dag, x)

(* C3, amended: with check_nan enabled, whenever iterate returns from a    *)
(* call whose iteration 0 left no NaN variance, no Variable has v = NaN.   *)
(* Iteration 0 is not checked: a NaN it leaves is kept.                    *)
C3_NoNanAfterCleanFirst ==
    (Returned /\ check_nan /\ cb_log # << >> /\ ~HasNan(cb_log[1].data)) =>
        \A x \in Range(variables) : ~VarianceIsNaN(message_dag, x)

\* iterate has returned clean of NaN after reverting a NaN iteration
C3_Witness ==
    /\ pc = "idle" /\ outcome = "nan" /\ check_nan
    /\ ~HasNan(cb_log[1].data)
    /\ \E x \in Range(variables) : LastAfter.node[x].v = NaN

(* C4: during the sweeps and the update that follow it, the checkpoint     *)
(* keeps the values it was taken with, and after a revert the graph (edge  *)
(* payloads, edge n_iter, node data) is the graph as it was when the       *)
(* checkpoint was taken, also when a rule wrote into a tensor in place.    *)
C4_CheckpointIsolated ==
    /\ Checkpointed => old_message_dag.dag = iter_start.dag
    /\ Reverted => message_dag = iter_start.dag

\* a tensor that was written in place: it changed while the edge's n_iter
\* did not
WrittenInPlace(k, e) ==
    /\ rule_log[k].before.edge[e].n_iter = iter_start.dag.edge[e].n_iter
    /\ rule_log[k].before.edge[e].b # iter_start.dag.edge[e].b

\* iterate has reverted an iteration in which a rule wrote in place into a
\* tensor the checkpoint had copied
C4_Witness ==
    /\ Reverted
    /\ \E k \in DOMAIN rule_log : \E e \in MsgEdges : WrittenInPlace(k, e)

(* C5: as long as no message graph was initialized, every call of iterate  *)
(* with warm_start=True fails with the usage error and leaves the engine   *)
(* as it was: no graph, n_iter unchanged, no rule and no callback invoked, *)
(* no sweep begun.                                                         *)
C5_WarmStartNeedsGraph ==
    ~has_dag =>
        /\ message_dag = NoDag
        /\ n_iter = 0
        /\ pc = "idle"
        /\ rule_log = << >>
        /\ cb_log = << >>
        /\ n_calls > 0 => (warm_start /\ outcome = "usage_error")

\* a warm start was refused on an engine without a message graph
C5_Witness ==
    ~has_dag /\ n_calls > 0 /\ warm_start /\ outcome = "usage_error"

\* what is left of a call of iterate, counted in steps of the engine: five
\* for each iteration not begun yet, less for the one that is running
StepsLeft ==
    5 * (max_iter - i)
    + CASE pc = "loop"  -> 1
        [] pc = "fwd"   -> 0
        [] pc = "bwd"   -> -1
        [] pc = "upd"   -> -2
        [] pc = "check" -> -3
        [] OTHER        -> 0

\* the diagnostics of iteration i find what they read: a variance on every
\* Variable and, when they are to run, the checkpoint with its variances
DiagnosticsDefined ==
    /\ \A x \in Range(variables) : "v" \in DOMAIN message_dag.node[x]
    /\ (i > 0 /\ (check_nan \/ check_decreasing)) =>
          /\ old_message_dag # NoCheckpoint
          /\ \A x \in Range(variables) :
                "v" \in DOMAIN old_message_dag.dag.node[x]

(* C6: a call of iterate performs at most max_iter iterations and comes to *)
(* its end, whatever the update rule and the callback answer: every step   *)
(* of a running call either ends it or lowers the number of steps left,    *)
(* which is never negative, and the diagnostics find all they read.  The   *)
(* call ends by exhausting max_iter (every iteration accepted, no callback *)
(* asking to stop), by a revert, or by a callback that asked to stop.      *)
C6_Terminates ==
    /\ [](InIteration => (i < max_iter /\ Len(cb_log) = i))
    /\ [](Len(cb_log) <= max_iter)
    /\ []((pc = "idle" /\ n_calls > 0) =>
             \/ outcome = "usage_error"
             \/ /\ outcome = "max_iter"
                /\ Len(cb_log) = max_iter
                /\ \A k \in DOMAIN cb_log : ~cb_log[k].stop
             \/ /\ outcome \in {"nan", "increasing"}
                /\ Len(cb_log) < max_iter
             \/ /\ outcome = "stop"
                /\ LastCallback.stop)
    /\ [](pc # "idle" => StepsLeft >= 0)
    /\ [](pc = "check" => DiagnosticsDefined)
    /\ [][pc # "idle" => (pc' = "idle" \/ StepsLeft' < StepsLeft)]_vars

\* iterate has returned after max_iter iterations with a callback that never
\* asked to stop
C6_Witness ==
    /\ pc = "idle" /\ outcome = "max_iter"
    /\ max_iter = MaxIter /\ Len(cb_log) = MaxIter


\* the positions in new_message of the messages for the edge e
MessagesTo(new_message, e) ==
    { j \in DOMAIN new_message :
          << new_message[j].source, new_message[j].target >> = e }

RECURSIVE CountTo(_, _, _)
\* the number of messages update_message was given for the edge e by the
\* rules log[1..k] of the running iteration
CountTo(log, k, e) ==
    IF k = 0 THEN 0
    ELSE Cardinality(MessagesTo(log[k].new_message, e)) + CountTo(log, k - 1, e)

\* n_iter of the edge e in the graph dag
EdgeIter(dag, e) == dag.edge[e].n_iter

(* C7, as claimed: over every step of a running call of iterate (sweeps,   *)
(* variable updates, divergence-triggered restores) no edge's n_iter       *)
(* decreases.                                                              *)
C7_Original ==
    [][pc # "idle" =>
          \A e \in DOMAIN message_dag.edge :
              EdgeIter(message_dag', e) >= EdgeIter(message_dag, e)]_vars

(* C7, amended: within an iteration an edge's n_iter is its value at the   *)
(* start of the iteration plus the number of messages update_message was   *)
(* given for that edge, so it never decreases over the sweeps and the      *)
(* variable update, which leaves it alone; a divergence-triggered restore  *)
(* puts it back to its value at the checkpoint, which is never above and   *)
(* may be below its value before the restore.                              *)
C7_EdgeIterCountsMessages ==
    /\ [](InIteration =>
             \A e \in DOMAIN message_dag.edge :
                 EdgeIter(message_dag, e)
                     = EdgeIter(iter_start.dag, e)
                       + CountTo(rule_log, Len(rule_log), e))
    /\ [](Reverted =>
             \A e \in DOMAIN message_dag.edge :
                 /\ EdgeIter(message_dag, e) = EdgeIter(iter_start.dag, e)
                 /\ EdgeIter(message_dag, e) <= EdgeIter(LastAfter, e))
    /\ [][(pc # "idle" /\ ~Reverted') =>
             \A e \in DOMAIN message_dag.edge :
                 /\ EdgeIter(message_dag', e) >= EdgeIter(message_dag, e)
                 /\ pc \in {"loop", "upd", "check"} =>
                        EdgeIter(message_dag', e) = EdgeIter(message_dag, e)]_vars

\* a restore has lowered the n_iter of an edge
C7_Witness ==
    /\ Reverted
    /\ \E e \in DOMAIN message_dag.edge :
          EdgeIter(message_dag, e) < EdgeIter(LastAfter, e)

\* the payload that sets the key on the edge e last, if any
LastSetting(new_message, e, key) ==
    { j \in MessagesTo(new_message, e) :
          /\ key \in DOMAIN new_message[j].data
          /\ \A h \in MessagesTo(new_message, e) :
                 (h > j) => key \notin DOMAIN new_message[h].data }

\* what update_message(new_message) makes of the graph before
UpdateMessageEffect(before, new_message, after) ==
    /\ after.nodes = before.nodes
    /\ after.node = before.node
    /\ DOMAIN after.edge = DOMAIN before.edge
    /\ \A e \in DOMAIN before.edge :
          LET to == MessagesTo(new_message, e)
          IN  /\ to = {} => after.edge[e] = before.edge[e]
              /\ EdgeIter(after, e) = EdgeIter(before, e) + Cardinality(to)
              /\ DOMAIN after.edge[e] =
                     (DOMAIN before.edge[e])
                     \cup UNION { DOMAIN new_message[j].data : j \in to }
              /\ \A key \in (DOMAIN before.edge[e]) \ {"n_iter"} :
                    LET last == LastSetting(new_message, e, key)
                    IN  /\ last = {} =>
                               after.edge[e][key] = before.edge[e][key]
                        /\ \A j \in last :
                               after.edge[e][key] = new_message[j].data[key]

(* C8: update_message raises by one, for each (source, target, payload) it *)
(* is given, the n_iter of the edge source->target and sets on that edge   *)
(* the keys of the payload; the keys of the edge that no payload holds     *)
(* keep their values, and every other edge and all node data are left as   *)
(* they were.                                                              *)
C8_UpdateMessageMerges ==
    \A k \in DOMAIN rule_log :
        rule_log[k].phase \in {"fwd", "bwd"} =>
            UpdateMessageEffect(rule_log[k].before, rule_log[k].new_message,
                                rule_log[k].after)

\* update_message was given a payload without the key b for an edge whose b
\* was no longer the initial one, and one edge got two messages at once
C8_Witness ==
    /\ \E k \in DOMAIN rule_log : \E j \in DOMAIN rule_log[k].new_message :
          LET m == rule_log[k].new_message[j]
              e == << m.source, m.target >>
          IN  /\ DOMAIN m.data = {"a"}
              /\ Cardinality(MessagesTo(rule_log[k].new_message, e)) = 1
              /\ rule_log[k].before.edge[e].b # DefaultInitializer.b
    /\ \E k \in DOMAIN rule_log : \E e \in MsgEdges :
          Cardinality(MessagesTo(rule_log[k].new_message, e)) = 2


\* the rule invocations of one iteration, in order: (phase, node)
Schedule ==
    [k \in 1 .. Len(ForwardOrdering) |->
        [phase |-> "fwd", node |-> ForwardOrdering[k]]]
    \o [k \in 1 .. Len(BackwardOrdering) |->
           [phase |-> "bwd", node |-> BackwardOrdering[k]]]
    \o [k \in 1 .. Len(variables) |->
           [phase |-> "upd", node |-> variables[k]]]

\* the graph the k-th rule invocation of the running iteration found
GraphBefore(k) == IF k = 1 THEN iter_start.dag ELSE rule_log[k - 1].after

(* C9: the callback is invoked once after each accepted iteration, with    *)
(* the engine as that iteration left it, the iteration's index within the  *)
(* call and max_iter, and not after a reverted iteration; when it asks to  *)
(* stop, iterate returns at once: no further sweep, no further callback,   *)
(* and the graph of the latest iteration is kept, no checkpoint restored.  *)
C9_CallbackPerAcceptedIteration ==
    /\ \A k \in DOMAIN cb_log :
          /\ cb_log[k].i = k - 1
          /\ cb_log[k].max_iter = max_iter
          /\ k > 1 => cb_log[k].n_iter = cb_log[k - 1].n_iter + 1
          /\ cb_log[k].stop =>
                (k = Len(cb_log) /\ pc = "idle" /\ outcome = "stop")
    /\ cb_log # << >> => n_iter = LastCallback.n_iter
    /\ (pc = "loop" \/ InIteration \/ Reverted) => Len(cb_log) = i
    /\ (pc = "loop" /\ i > 0) =>
          /\ message_dag = LastAfter
          /\ GetVariablesData(message_dag, variables) = LastCallback.data
    /\ (pc = "idle" /\ outcome = "stop") =>
          /\ Len(cb_log) = i + 1
          /\ LastCallback.stop
          /\ Len(rule_log) = Len(Schedule)
          /\ message_dag = LastAfter
          /\ GetVariablesData(message_dag, variables) = LastCallback.data

\* the callback asked to stop after the first iteration of a call that had
\* more iterations to go; the graph of that iteration is kept and is not the
\* graph the iteration began with
C9_Witness ==
    /\ pc = "idle" /\ outcome = "stop"
    /\ Len(cb_log) = 1 /\ cb_log[1].stop
    /\ max_iter = MaxIter
    /\ check_nan /\ check_decreasing
    /\ message_dag # iter_start.dag

(* C10: within every iteration the forward rule is applied to the nodes of *)
(* forward_ordering in that order, then the backward rule to the nodes of  *)
(* backward_ordering in that order, then the update rule to every          *)
(* Variable, once each, in the order of the engine's variable list; and    *)
(* every rule receives the messages of the graph as the rule invocation    *)
(* before it left it.                                                      *)
C10_SweepOrder ==
    /\ Len(rule_log) =
           CASE pc = "fwd"   -> 0
             [] pc = "bwd"   -> Len(ForwardOrdering)
             [] pc = "upd"   -> Len(ForwardOrdering) + Len(BackwardOrdering)
             [] pc = "check" -> Len(Schedule)
             [] pc = "loop"  -> IF i = 0 THEN 0 ELSE Len(Schedule)
             [] OTHER        -> IF Returned /\ (i > 0 \/ outcome = "stop")
                                THEN Len(Schedule) ELSE 0
    /\ \A k \in DOMAIN rule_log :
          /\ rule_log[k].phase = Schedule[k].phase
          /\ rule_log[k].phase # "upd" => rule_log[k].node = Schedule[k].node
          /\ rule_log[k].phase = "upd" =>
                /\ IsVariable(rule_log[k].node)
                /\ \A j \in DOMAIN rule_log :
                      (j # k /\ rule_log[j].phase = "upd") =>
                          rule_log[j].node # rule_log[k].node
                /\ ~Reverted => rule_log[k].node = Schedule[k].node
          /\ rule_log[k].message = InEdges(GraphBefore(k), rule_log[k].node)

\* the sweeps and the update of an iteration are done, and a forward rule
\* has received a message that a node before it in the sweep had written
C10_Witness ==
    /\ pc = "check"
    /\ Len(rule_log) = Len(Schedule)
    /\ \E k \in 2 .. Len(ForwardOrdering) :
          rule_log[k].message # InEdges(iter_start.dag, rule_log[k].node)

\* the graph dag has the nodes of the model and, for every edge of the model,
\* the edge tagged "fwd" and its reverse tagged "bwd", and no other edge
HasModelTopology(dag) ==
    /\ Range(dag.nodes) = Range(ModelNodes)
    /\ Len(dag.nodes) = Len(ModelNodes)
    /\ DOMAIN dag.node = Range(ModelNodes)
    /\ Cardinality(DOMAIN dag.edge) = 2 * Cardinality(ModelEdges)
    /\ \A e \in DOMAIN dag.edge :
          \/ e \in ModelEdges /\ dag.edge[e].direction = "fwd"
          \/ << e[2], e[1] >> \in ModelEdges /\ dag.edge[e].direction = "bwd"

(* C11: once initialized, the message graph has exactly the nodes of the   *)
(* model and, for every model edge u->v, the two message edges u->v tagged *)
(* forward and v->u tagged backward, in every state: after every rule      *)
(* invocation of a sweep or an update, in every checkpoint and after every *)
(* restore.                                                                *)
C11_TopologyFrozen ==
    has_dag =>
        /\ HasModelTopology(message_dag)
        /\ HasModelTopology(iter_start.dag)
        /\ Checkpointed => HasModelTopology(old_message_dag.dag)
        /\ \A k \in DOMAIN rule_log :
              /\ HasModelTopology(rule_log[k].before)
              /\ HasModelTopology(rule_log[k].after)

\* a checkpoint was restored on an engine whose rules had written messages
C11_Witness ==
    /\ Reverted
    /\ \E e \in DOMAIN message_dag.edge : EdgeIter(message_dag, e) > 0
    /\ \E e \in DOMAIN message_dag.edge :
          EdgeIter(LastAfter, e) > EdgeIter(message_dag, e)

-----------------------------------------------------------------------------
(* Numbers of the channels: exact fractions n/d with d > 0, in lowest      *)
(* terms.  ZeroDivision is what a division by zero gives: Python numbers   *)
(* raise ZeroDivisionError, numpy numbers give inf or nan and go on; every  *)
(* operation on it gives it again.                                         *)

\* precisions are drawn from 0 .. MaxPrecision
MaxPrecision == 2
\* coefficients are drawn from -MaxCoef .. MaxCoef
MaxCoef == 1
\* moment lists have 1 .. MaxArity entries
MaxArity == 3

ZeroDivision == [n |-> 0, d |-> 0]

IsZeroDivision(x) == x.d = 0

Abs(k) == IF k < 0 THEN -k ELSE k

RECURSIVE Gcd(_, _)
Gcd(a, b) == IF b = 0 THEN a ELSE Gcd(b, a % b)

\* the fraction n/d in lowest terms
Frac(n, d) ==
    IF d = 0 THEN ZeroDivision
    ELSE LET g == Gcd(Abs(n), Abs(d))
             sgn == IF d < 0 THEN -1 ELSE 1
         IN  [n |-> sgn * (n \div g), d |-> sgn * (d \div g)]

\* the number k
Num(k) == [n |-> k, d |-> 1]

\* x + y
Plus(x, y) ==
    IF IsZeroDivision(x) \/ IsZeroDivision(y) THEN ZeroDivision
    ELSE Frac(x.n * y.d + y.n * x.d, x.d * y.d)

\* x - y
Minus(x, y) ==
    IF IsZeroDivision(x) \/ IsZeroDivision(y) THEN ZeroDivision
    ELSE Frac(x.n * y.d - y.n * x.d, x.d * y.d)

\* x * y
Times(x, y) ==
    IF IsZeroDivision(x) \/ IsZeroDivision(y) THEN ZeroDivision
    ELSE Frac(x.n * y.n, x.d * y.d)

\* x / y
Over(x, y) ==
    IF IsZeroDivision(x) \/ IsZeroDivision(y) \/ y.n = 0 THEN ZeroDivision
    ELSE Frac(x.n * y.d, x.d * y.n)

\* x <= y, for numbers
AtMost(x, y) == x.n * y.d <= y.n * x.d

RECURSIVE Sum(_)
\* sum(...) of Python and ndarray.sum(): 0 for no entry
Sum(xs) == IF xs = << >> THEN Num(0) ELSE Plus(Head(xs), Sum(Tail(xs)))

\* np.mean
Mean(xs) == Over(Sum(xs), Num(Len(xs)))

\* zip(xs, ys): as long as the shorter of the two
Zip(xs, ys) ==
    [k \in 1 .. (IF Len(xs) < Len(ys) THEN Len(xs) ELSE Len(ys)) |->
        << xs[k], ys[k] >>]

\* some number of the list comes from a division by zero
AnyZeroDivision(xs) == \E k \in 1 .. Len(xs) : IsZeroDivision(xs[k])

\* a method returned value
Returns(value) == [raised |-> "none", value |-> value]

\* a method computed the numbers on its way and returned value, unless one
\* of them was a division by zero: then Python numbers have raised
\* ZeroDivisionError and numpy numbers have put inf or nan into value
Computes(numbers, value) ==
    [raised |-> IF AnyZeroDivision(numbers) THEN "ZeroDivision" ELSE "none",
     value |-> value]

\* a method raised the exception
Raises(exception) == [raised |-> exception, value |-> << >>]

-----------------------------------------------------------------------------
(* SumChannel, x = sum(z) *)

\* v_bar = sum(1 / a for a in az)
SumVBar(az_) == Sum([k \in 1 .. Len(az_) |-> Over(Num(1), az_[k])])

\* r_bar = sum(b / a for a, b in zip(az, bz))
SumRBar(az_, bz_) ==
    LET ab == Zip(az_, bz_)
    IN  Sum([k \in 1 .. Len(ab) |-> Over(ab[k][2], ab[k][1])])

\* SumChannel.second_moment
SumSecondMoment(n_prev, taus) ==
    IF Len(taus) # n_prev THEN Raises("ValueError") ELSE Returns(Sum(taus))

\* SumChannel.compute_forward_message
SumComputeForwardMessage(az_, bz_, ax_, bx_) ==
    LET v_bar == SumVBar(az_)
        r_bar == SumRBar(az_, bz_)
        ax_new == Over(Num(1), v_bar)
        bx_new == Over(r_bar, v_bar)
    IN  Computes(<< v_bar, r_bar, ax_new, bx_new >>,
                 [ax |-> ax_new, bx |-> bx_new])

\* SumChannel.compute_backward_message
SumComputeBackwardMessage(az_, bz_, ax_, bx_) ==
    LET v_bar == SumVBar(az_)
        r_bar == SumRBar(az_, bz_)
        vx == Over(Num(1), ax_)
        rx == Over(bx_, ax_)
        ab == Zip(az_, bz_)
        vk == [k \in 1 .. Len(az_) |->
                  Minus(Plus(vx, v_bar), Over(Num(1), az_[k]))]
        rk == [k \in 1 .. Len(ab) |->
                  Plus(Minus(rx, r_bar), Over(ab[k][2], ab[k][1]))]
        vr == Zip(vk, rk)
        az_new == [k \in 1 .. Len(vk) |-> Over(Num(1), vk[k])]
        bz_new == [k \in 1 .. Len(vr) |-> Over(vr[k][2], vr[k][1])]
    IN  Computes(<< v_bar, r_bar, vx, rx >> \o az_new \o bz_new,
                 [az |-> az_new, bz |-> bz_new])

-----------------------------------------------------------------------------
(* ReshapeChannel, x = reshape(z); a shape is << rows, columns >>, a       *)
(* tensor of that shape the sequence of its rows                           *)

\* ndarray.reshape of a flat vector, in C order; ValueError when the sizes
\* differ
Reshape(b, shape) ==
    IF Len(b) # shape[1] * shape[2] THEN Raises("ValueError")
    ELSE Returns([r \in 1 .. shape[1] |->
                     [c \in 1 .. shape[2] |-> b[(r - 1) * shape[2] + c]]])

RECURSIVE RavelFortran(_)
\* a ravel that walks the tensor column by column
RavelFortran(t) ==
    IF t = << >> \/ t[1] = << >> THEN << >>
    ELSE [r \in 1 .. Len(t) |-> t[r][1]]
         \o RavelFortran([r \in 1 .. Len(t) |-> Tail(t[r])])

RECURSIVE Ravel(_)
\* ndarray.ravel: the rows one after the other
Ravel(t) == IF t = << >> THEN << >> ELSE Head(t) \o Ravel(Tail(t))

\* ReshapeChannel.compute_forward_message
ReshapeComputeForwardMessage(shape, az_, bz_, ax_, bx_) ==
    LET reshaped == Reshape(bz_, shape)
    IN  IF reshaped.raised # "none" THEN reshaped
        ELSE Returns([ax |-> az_, bx |-> reshaped.value])

\* ReshapeChannel.compute_backward_message
ReshapeComputeBackwardMessage(shape, az_, bz_, ax_, bx_) ==
    Returns([az |-> ax_, bz |-> Ravel(bx_)])

-----------------------------------------------------------------------------
(* GradientChannel, x = grad z.  The channel holds its spectrum, the       *)
(* non-negative numbers |w_fft|^2 summed over the gradient directions, one *)
(* per frequency, and d, the number of directions.                         *)

\* a compute_n_eff without the branch for ax = 0
ComputeNEffUnbranched(spectrum, az_, ax_) ==
    IF Over(az_, ax_) = Num(0) THEN Num(1)
    ELSE Mean([k \in 1 .. Len(spectrum) |->
                  Over(spectrum[k], Plus(Over(az_, ax_), spectrum[k]))])

\* GradientChannel.compute_n_eff
ComputeNEff(spectrum, az_, ax_) ==
    IF ax_ = Num(0) THEN Num(0)
    ELSE IF Over(az_, ax_) = Num(0) THEN Num(1)
    ELSE Mean([k \in 1 .. Len(spectrum) |->
                  Over(spectrum[k], Plus(Over(az_, ax_), spectrum[k]))])

\* GradientChannel.compute_backward_variance
ComputeBackwardVariance(spectrum, az_, ax_) ==
    IF az_ = Num(0)
    THEN LET i_mean == Mean([k \in 1 .. Len(spectrum) |->
                                Over(Num(1), spectrum[k])])
         IN  Over(i_mean, ax_)
    ELSE Over(Minus(Num(1), ComputeNEff(spectrum, az_, ax_)), az_)

\* GradientChannel.compute_forward_variance
ComputeForwardVariance(spectrum, d, az_, ax_) ==
    IF ax_ = Num(0)
    THEN Over(Mean(spectrum), az_)
    ELSE Over(ComputeNEff(spectrum, az_, ax_), Times(ax_, Num(d)))

\* GradientChannel.compute_backward_mean(return_fft=True), given
\* rhs_fft = bz_fft + (w_fft_bar * bx_fft).sum(axis=0), frequency by frequency
ComputeBackwardMean(spectrum, az_, rhs_fft, ax_) ==
    LET resolvent == [k \in 1 .. Len(spectrum) |->
                         Over(Num(1), Plus(az_, Times(ax_, spectrum[k])))]
    IN  [k \in 1 .. Len(spectrum) |-> Times(resolvent[k], rhs_fft[k])]

-----------------------------------------------------------------------------
(* The channels applied to drawn moments *)

\* a shape has at most MaxCells elements
MaxCells == 4
\* a spectrum has 1 .. MaxFreq frequencies
MaxFreq == 3
\* with values 0 .. MaxSpectrum
MaxSpectrum == 2

Precisions == { Num(k) : k \in 0 .. MaxPrecision }

Coefs == { Num(k) : k \in (0 - MaxCoef) .. MaxCoef }

\* the lists over S with lo .. hi entries
ListsOf(S, lo, hi) == UNION { [1 .. len -> S] : len \in lo .. hi }

SumChannels == { [kind |-> "sum", n_prev |-> n] : n \in 2 .. MaxArity }

ReshapeChannels ==
    { [kind |-> "reshape", shape |-> << r, c >>] :
          << r, c >> \in { s \in (1 .. MaxCells) \X (1 .. MaxCells) :
                              s[1] * s[2] <= MaxCells } }

GradientChannels ==
    { [kind |-> "gradient", spectrum |-> s, d |-> n] :
          << s, n >> \in ListsOf({ Num(k) : k \in 0 .. MaxSpectrum }, 1, MaxFreq)
                            \X (1 .. 2) }

\* no engine is in use
NoEngine ==
    /\ forward = "silent" /\ backward = "silent"
    /\ has_dag = FALSE /\ message_dag = NoDag
    /\ variables = ModelVariables
    /\ n_iter = 0 /\ pc = "idle" /\ i = 0 /\ max_iter = 0
    /\ warm_start = FALSE /\ check_nan = FALSE /\ check_decreasing = FALSE
    /\ old_message_dag = NoCheckpoint
    /\ outcome = "none"
    /\ iter_start = [dag |-> NoDag, n_iter |-> 0]
    /\ rule_log = << >> /\ cb_log = << >>
    /\ n_calls = 0

\* a channel is constructed and moments are at hand
ChannelInit ==
    /\ NoEngine
    /\ op = "none"
    /\ ret = [raised |-> "none", value |-> << >>]
    /\ \/ /\ channel \in SumChannels
          /\ az \in ListsOf(Precisions, 0, MaxArity)
          /\ bz \in ListsOf(Coefs, 0, MaxArity)
          /\ ax \in Precisions
          /\ bx \in Coefs
       \/ /\ channel \in ReshapeChannels
          /\ az \in Precisions
          /\ bz \in ListsOf(Coefs, 1, MaxCells)
          /\ ax \in Precisions
          /\ bx = << >>
       \/ /\ channel \in GradientChannels
          /\ az \in Precisions
          /\ bz \in [1 .. Len(channel.spectrum) -> Coefs]
          /\ ax \in Precisions
          /\ bx = Num(0)

\* a method of the channel is called on the moments and returns
Call(kind, before, method, returned) ==
    /\ channel.kind = kind
    /\ op = before
    /\ op' = method
    /\ ret' = returned
    /\ UNCHANGED << engine_vars, channel, az, bz >>

SumForward ==
    /\ Call("sum", "none", "sum_forward",
            SumComputeForwardMessage(az, bz, ax, bx))
    /\ UNCHANGED << ax, bx >>

SumBackward ==
    /\ Call("sum", "none", "sum_backward",
            SumComputeBackwardMessage(az, bz, ax, bx))
    /\ UNCHANGED << ax, bx >>

\* the forward message is fed back as (ax, bx) with the original (az, bz)
SumRoundTrip ==
    /\ Call("sum", "sum_forward", "sum_round_trip",
            SumComputeBackwardMessage(az, bz, ret.value.ax, ret.value.bx))
    /\ ax' = ret.value.ax
    /\ bx' = ret.value.bx

SumTau ==
    /\ Call("sum", "none", "sum_second_moment",
            SumSecondMoment(channel.n_prev, az))
    /\ UNCHANGED << ax, bx >>

ReshapeForward ==
    /\ Call("reshape", "none", "reshape_forward",
            ReshapeComputeForwardMessage(channel.shape, az, bz, ax, bx))
    /\ UNCHANGED << ax, bx >>

\* the forward message is fed back as (ax, bx)
ReshapeRoundTrip ==
    /\ ret.raised = "none"
    /\ Call("reshape", "reshape_forward", "reshape_round_trip",
            ReshapeComputeBackwardMessage(channel.shape, az, bz,
                                          ret.value.ax, ret.value.bx))
    /\ ax' = ret.value.ax
    /\ bx' = ret.value.bx

GradientNEff ==
    /\ Call("gradient", "none", "n_eff",
            Computes(<< ComputeNEff(channel.spectrum, az, ax) >>,
                     ComputeNEff(channel.spectrum, az, ax)))
    /\ UNCHANGED << ax, bx >>

GradientBackwardVariance ==
    /\ Call("gradient", "none", "backward_variance",
            Computes(<< ComputeBackwardVariance(channel.spectrum, az, ax) >>,
                     ComputeBackwardVariance(channel.spectrum, az, ax)))
    /\ UNCHANGED << ax, bx >>

GradientForwardVariance ==
    /\ Call("gradient", "none", "forward_variance",
            Computes(<< ComputeForwardVariance(channel.spectrum, channel.d,
                                               az, ax) >>,
                     ComputeForwardVariance(channel.spectrum, channel.d,
                                            az, ax)))
    /\ UNCHANGED << ax, bx >>

GradientBackwardMean ==
    /\ Call("gradient", "none", "backward_mean",
            Computes(ComputeBackwardMean(channel.spectrum, az, bz, ax),
                     ComputeBackwardMean(channel.spectrum, az, bz, ax)))
    /\ UNCHANGED << ax, bx >>

ChannelNext ==
    \/ SumForward
    \/ SumBackward
    \/ SumRoundTrip
    \/ SumTau
    \/ ReshapeForward
    \/ ReshapeRoundTrip
    \/ GradientNEff
    \/ GradientBackwardVariance
    \/ GradientForwardVariance
    \/ GradientBackwardMean

ChannelSpec == ChannelInit /\ [][ChannelNext]_vars

-----------------------------------------------------------------------------
(* What the claims about the channels are stated with *)

\* some entry of the list is x
Among(xs, x) == \E k \in 1 .. Len(xs) : xs[k] = x

\* the method returned, it did not raise, and it divided by zero nowhere
ReturnedCleanly == ret.raised = "none"

(* C12, as claimed: given a zero precision, compute_n_eff,                 *)
(* compute_backward_variance, compute_forward_variance and                 *)
(* compute_backward_mean of GradientChannel and compute_forward_message    *)
(* and compute_backward_message of SumChannel return a value without       *)
(* dividing by zero.                                                       *)
C12_ZeroPrecisionBranched ==
    /\ (op \in {"n_eff", "backward_variance", "forward_variance",
                "backward_mean"}
           /\ (az = Num(0) \/ ax = Num(0))) => ReturnedCleanly
    /\ (op = "sum_forward" /\ Among(az, Num(0))) => ReturnedCleanly
    /\ (op = "sum_backward" /\ (Among(az, Num(0)) \/ ax = Num(0))) =>
          ReturnedCleanly

(* C13, as claimed: compute_forward_message and compute_backward_message   *)
(* of a SumChannel with n_prev = K, given az or bz of a length other than  *)
(* K, fail with an error and return no message.                            *)
C13_ArityMismatchSignalled ==
    (op \in {"sum_forward", "sum_backward"}
        /\ (Len(az) # channel.n_prev \/ Len(bz) # channel.n_prev)) =>
        ~ReturnedCleanly

(* C14, as claimed: for a SumChannel with two inputs of positive           *)
(* precisions, the backward message computed from the forward message and  *)
(* the original inputs is the original inputs: (a1, b1) and (a2, b2).      *)
C14_SumRoundTrip ==
    (op = "sum_round_trip" /\ channel.n_prev = 2
        /\ Len(az) = 2 /\ Len(bz) = 2 /\ ~Among(az, Num(0))) =>
        /\ ret.raised = "none"
        /\ ret.value.az = az
        /\ ret.value.bz = bz

(* C15: compute_n_eff returns 0 whenever ax = 0, whatever az; 1 when       *)
(* az = 0 and ax > 0; and for az > 0, ax > 0 and a non-negative spectrum a *)
(* number from 0 to 1; it divides by zero in none of these cases.          *)
C15_NEffRange ==
    op = "n_eff" =>
        /\ ReturnedCleanly
        /\ ax = Num(0) => ret.value = Num(0)
        /\ (az = Num(0) /\ ax # Num(0)) => ret.value = Num(1)
        /\ (az # Num(0) /\ ax # Num(0)) =>
              (AtMost(Num(0), ret.value) /\ AtMost(ret.value, Num(1)))

\* compute_n_eff has returned a number strictly between 0 and 1 for positive
\* precisions and a spectrum that has a zero
C15_Witness ==
    /\ op = "n_eff"
    /\ az # Num(0) /\ ax # Num(0)
    /\ Among(channel.spectrum, Num(0))
    /\ ret.value # Num(0) /\ ret.value # Num(1)
    /\ AtMost(Num(0), ret.value) /\ AtMost(ret.value, Num(1))

(* C16: for ReshapeChannel, compute_backward_message applied to the result *)
(* of compute_forward_message returns the precision az and the flat        *)
(* coefficient vector bz it started from, for every shape whose element    *)
(* count is the length of bz; for any other length the reshape raises.     *)
C16_ReshapeRoundTrip ==
    /\ op = "reshape_round_trip" =>
          /\ Len(bz) = channel.shape[1] * channel.shape[2]
          /\ ret.raised = "none"
          /\ ret.value.az = az
          /\ ret.value.bz = bz
    /\ op = "reshape_forward" =>
          IF Len(bz) = channel.shape[1] * channel.shape[2]
          THEN /\ ret.raised = "none"
               /\ ret.value.ax = az
               /\ Len(ret.value.bx) = channel.shape[1]
               /\ \A r \in 1 .. channel.shape[1] :
                      Len(ret.value.bx[r]) = channel.shape[2]
          ELSE ret.raised = "ValueError"

\* a vector of four coefficients has gone through the shape (2, 2) and back,
\* its second and third coefficient being different
C16_Witness ==
    /\ op = "reshape_round_trip"
    /\ channel.shape = << 2, 2 >>
    /\ bz[2] # bz[3]
    /\ bx = << << bz[1], bz[2] >>, << bz[3], bz[4] >> >>
    /\ ret.value.bz = bz

-----------------------------------------------------------------------------
(* More claims about the engine *)

\* a diagnostic that is enabled finds its condition in the graph of the
\* iteration that has just run
DivergenceSeen ==
    \/ check_nan /\ CheckAnyNan(message_dag, variables)
    \/ check_decreasing
          /\ CheckAnyIncreasing(message_dag, variables, old_message_dag.dag)

(* C17: in every call of iterate, warm-started or not, iteration 0 takes   *)
(* no checkpoint and is accepted whatever variances the update rule        *)
(* returned: n_iter is incremented, the callback is invoked with i = 0 and *)
(* the graph is kept; no call is reverted at iteration 0.  Every later     *)
(* iteration has a checkpoint when a diagnostic is enabled and is reverted *)
(* when an enabled diagnostic finds its condition.                         *)
C17_FirstIterationUnchecked ==
    /\ []((InIteration /\ i = 0) => old_message_dag = NoCheckpoint)
    /\ [](Checkpointed => old_message_dag # NoCheckpoint)
    /\ [](Reverted => i > 0)
    /\ [][(pc = "check" /\ i = 0) =>
             /\ n_iter' = n_iter + 1
             /\ Len(cb_log') = 1
             /\ cb_log'[1].i = 0
             /\ message_dag' = message_dag
             /\ pc' = "loop" \/ (pc' = "idle" /\ outcome' = "stop")]_vars
    /\ [][(pc = "check" /\ i > 0 /\ DivergenceSeen) => Reverted']_vars

\* a warm-started call with both diagnostics enabled, on an engine that held
\* accepted iterations, has had its iteration 0 accepted with a NaN variance
C17_Witness ==
    /\ n_calls = 2 /\ warm_start
    /\ check_nan /\ check_decreasing
    /\ cb_log # << >>
    /\ cb_log[1].n_iter > 1
    /\ HasNan(cb_log[1].data)

\* the graph dag is as init_message_dag builds it with the default
\* initializer: no edge has counted a message, every message key has the
\* initial value, and the nodes carry the data of the model only
FreshlyInitialized(dag) ==
    /\ HasModelTopology(dag)
    /\ \A e \in DOMAIN dag.edge :
          /\ EdgeIter(dag, e) = 0
          /\ \A key \in MessageKeys : dag.edge[e][key] = DefaultInitializer[key]
    /\ \A n \in DOMAIN dag.node : dag.node[n] = ModelNodeData(n)

(* C18: a warm-started call on an initialized engine begins with the       *)
(* message graph, the variable list and n_iter exactly as the call before  *)
(* left them; a cold-started call begins with n_iter = 0 and a graph built *)
(* anew: every edge at n_iter = 0, every message key at the initializer's  *)
(* value, no Variable data; in both cases before any rule has run.         *)
C18_WarmKeepsColdResets ==
    /\ [][(pc = "idle" /\ pc' = "loop") =>
             /\ rule_log' = << >>
             /\ i' = 0
             /\ IF warm_start'
                THEN /\ has_dag
                     /\ message_dag' = message_dag
                     /\ variables' = variables
                     /\ n_iter' = n_iter
                ELSE /\ n_iter' = 0
                     /\ has_dag'
                     /\ FreshlyInitialized(message_dag')]_vars
    /\ []((pc = "loop" /\ i = 0 /\ ~warm_start) =>
             (n_iter = 0 /\ FreshlyInitialized(message_dag)))
    /\ [](cb_log # << >> =>
             cb_log[1].n_iter = (IF warm_start THEN n_iter - Len(cb_log) + 1
                                               ELSE 1))

\* a warm-started call has begun on an engine whose earlier call had counted
\* iterations, written messages and set variances
C18_Witness ==
    /\ n_calls = 2 /\ warm_start
    /\ pc = "loop" /\ i = 0
    /\ n_iter > 0
    /\ \E e \in DOMAIN message_dag.edge : EdgeIter(message_dag, e) > 0
    /\ \A x \in Range(variables) : "v" \in DOMAIN message_dag.node[x]

\* some Variable's new variance is strictly greater than in the checkpoint
\* of the iteration, which exists from iteration 1 on
AnyIncreased ==
    i > 0 /\ CheckAnyIncreasing(message_dag, variables, old_message_dag.dag)

(* C19, as claimed: with check_decreasing alone an iteration is reverted   *)
(* exactly when some new variance is strictly greater than in the          *)
(* checkpoint; with check_nan alone exactly when some variance is NaN;     *)
(* with neither there is no checkpoint and no revert.                      *)
C19_Original ==
    [][pc = "check" =>
          /\ (~check_nan /\ check_decreasing) => (Reverted' <=> AnyIncreased)
          /\ (check_nan /\ ~check_decreasing) =>
                (Reverted' <=> CheckAnyNan(message_dag, variables))
          /\ (~check_nan /\ ~check_decreasing) =>
                (~Reverted' /\ old_message_dag = NoCheckpoint)]_vars

(* C19, amended: the same for the iterations with index i > 0, the only    *)
(* ones the diagnostics look at: with check_nan alone an iteration i > 0   *)
(* is reverted exactly when some variance is NaN, and a NaN at iteration 0 *)
(* is accepted.  A disabled check never ends a call, and with both         *)
(* disabled a call ends only on max_iter or on a callback's stop.          *)
C19_ChecksIndependent ==
    /\ [][pc = "check" =>
             /\ (~check_nan /\ check_decreasing) =>
                   (Reverted' <=> AnyIncreased)
             /\ (check_nan /\ ~check_decreasing) =>
                   (Reverted' <=>
                        (i > 0 /\ CheckAnyNan(message_dag, variables)))
             /\ (~check_nan /\ ~check_decreasing) =>
                   (~Reverted' /\ old_message_dag = NoCheckpoint)]_vars
    /\ []((pc = "idle" /\ outcome = "nan") => check_nan)
    /\ []((pc = "idle" /\ outcome = "increasing") => check_decreasing)
    /\ []((InIteration /\ ~check_nan /\ ~check_decreasing) =>
             old_message_dag = NoCheckpoint)

\* with check_decreasing alone, an iteration that left a NaN variance on one
\* Variable was reverted for the increased variance of another
C19_Witness ==
    /\ Reverted /\ outcome = "increasing"
    /\ ~check_nan /\ check_decreasing
    /\ \E x \in Range(variables) : VarianceIsNaN(LastAfter, x)

\* the rule the sweep of a phase applies
RuleOf(phase) == IF phase = "fwd" THEN forward ELSE backward

\* the graphs g and h differ at most in the value of tensors that a rule
\* given the messages message may have written in place
SameButInPlace(g, h, message) ==
    /\ h.nodes = g.nodes
    /\ h.node = g.node
    /\ DOMAIN h.edge = DOMAIN g.edge
    /\ \A e \in DOMAIN g.edge :
          /\ DOMAIN h.edge[e] = DOMAIN g.edge[e]
          /\ \A key \in DOMAIN g.edge[e] :
                h.edge[e][key] # g.edge[e][key] =>
                    (e \in DOMAIN message /\ key \in MessageKeys)

(* C20: the forward and the backward sweep leave the node data (r, v) of   *)
(* every Variable unchanged and the variable update leaves every edge's    *)
(* payload and n_iter unchanged: the engine changes edge data in           *)
(* update_message only, whatever else changes on an edge during a sweep    *)
(* being the value of a tensor the rule itself wrote in place, and it      *)
(* changes node data in update_variables only, for the Variable being      *)
(* updated.                                                                *)
C20_FrameEffect ==
    \A k \in DOMAIN rule_log :
        LET entry == rule_log[k]
            g == GraphBefore(k)
        IN  /\ entry.phase \in {"fwd", "bwd"} =>
                  /\ entry.after.node = g.node
                  /\ entry.after.nodes = g.nodes
                  /\ SameButInPlace(g, entry.before, entry.message)
                  /\ RuleOf(entry.phase) # "inplace" => entry.before = g
                  /\ \A e \in DOMAIN g.edge :
                        /\ EdgeIter(entry.before, e) = EdgeIter(g, e)
                        /\ MessagesTo(entry.new_message, e) = {} =>
                               entry.after.edge[e] = entry.before.edge[e]
            /\ entry.phase = "upd" =>
                  /\ entry.before = g
                  /\ entry.after.edge = g.edge
                  /\ entry.after.nodes = g.nodes
                  /\ \A x \in DOMAIN g.node :
                        x # entry.node =>
                            entry.after.node[x] = g.node[x]

\* an iteration is done in which a sweep changed edge data and the variable
\* update changed the node data of a Variable
C20_Witness ==
    /\ pc = "check"
    /\ Len(rule_log) = Len(Schedule)
    /\ \E k \in DOMAIN rule_log :
          /\ rule_log[k].phase \in {"fwd", "bwd"}
          /\ rule_log[k].after.edge # GraphBefore(k).edge
    /\ \E k \in DOMAIN rule_log :
          /\ rule_log[k].phase = "upd"
          /\ rule_log[k].after.node # GraphBefore(k).node

-----------------------------------------------------------------------------
(* The output accessor *)

\* the Variables of the graph dag, in the order of its nodes
VariablesOf(dag) == SelectSeqOf(dag.nodes, 1)

\* an iteration has been accepted or a checkpoint restored, and iterate is
\* not inside an iteration
Settled == Reverted \/ ((pc = "loop" \/ Returned) /\ Len(cb_log) > 0)

\* the records data are one per Variable of the graph dag, each with the
\* Variable's id and its node data in dag
OnePerVariable(data, dag) ==
    /\ Len(data) = Len(VariablesOf(dag))
    /\ { data[k].id : k \in DOMAIN data } = Range(VariablesOf(dag))
    /\ \A k \in DOMAIN data :
          /\ IsVariable(data[k].id)
          /\ \A key \in DOMAIN dag.node[data[k].id] :
                data[k][key] = dag.node[data[k].id][key]

-----------------------------------------------------------------------------
(* The iteration counts *)

\* the rule, applied in a sweep of direction dir over the graph dag, returns
\* exactly one message for every edge leaving the node in that direction and
\* none for any other edge
WritesEachEdgeOnce(rule, dir, dag) ==
    \A node \in Range(ModelNodes) :
        LET res == ApplyRule(rule, dir, node, InEdges(dag, node))
        IN  \A e \in MsgEdges :
                Cardinality(MessagesTo(res.msgs, e)) =
                    IF e \in OutEdges(node, dir) THEN 1 ELSE 0

\* the iterations the latest call of iterate accepted
AcceptedIterations == IF outcome = "stop" THEN i + 1 ELSE i

\* the latest call of iterate was a cold start with rules that write every
\* edge of their direction once per sweep, and it has returned
ColdRunOncePerEdgeReturned ==
    /\ Returned
    /\ ~warm_start
    /\ WritesEachEdgeOnce(forward, "fwd", message_dag)
    /\ WritesEachEdgeOnce(backward, "bwd", message_dag)

(* C22: when a cold-started run whose forward and backward rules write     *)
(* each edge of their direction exactly once per sweep returns, the        *)
(* engine's n_iter is the number of iterations the run accepted, which is  *)
(* the number of callback invocations, and it is the n_iter of every edge  *)
(* of the graph the run leaves, also when the run ended by restoring a     *)
(* checkpoint.                                                             *)
C22_CountsAgree ==
    ColdRunOncePerEdgeReturned =>
        /\ n_iter = AcceptedIterations
        /\ n_iter = Len(cb_log)
        /\ \A e \in DOMAIN message_dag.edge : EdgeIter(message_dag, e) = n_iter

\* such a run has accepted an iteration and reverted the next
C22_Witness ==
    /\ ColdRunOncePerEdgeReturned
    /\ Reverted
    /\ n_iter = 1
    /\ \E e \in DOMAIN LastAfter.edge : EdgeIter(LastAfter, e) = 2

=============================================================================
